---- MODULE Spec2Model ----
(***************************************************************************)
(* State-machine model of src/src/ChatComponent.jsx: the chat component    *)
(* that owns the session, dispatches a submitted utterance to one of three *)
(* agent backends, folds the backend's events into messages and progress,  *)
(* and persists turns in localStorage.                                     *)
(*                                                                         *)
(* Representation.                                                         *)
(*  - A JavaScript string is a sequence of tokens (each token a piece of   *)
(*    text); concatenation is \o and '' is << >>.  A string literal of the *)
(*    source is one token.                                                 *)
(*  - The JavaScript value undefined is the reserved text Undefined, which *)
(*    no string contains.                                                  *)
(*  - Session ids are the integers 1, 2, ...; 0 is the null sessionId.     *)
(*  - One atomic action is one run of JavaScript between two suspension    *)
(*    points (await); React state read by a handler is the state of the    *)
(*    render it was created in, captured in the process record.            *)
(*  - The text of the prompt input (newMessage) is the input of            *)
(*    handleSubmit; nothing else reads it.                                 *)
(*  - Messages carry a third field, turn, that the program does not have:  *)
(*    it names the handleSubmit call that built the message.  Every call   *)
(*    of handleSubmit has a process record, also one that returns at once. *)
(*    The record keeps the events the call consumed and the ProgressStates *)
(*    it published while it is pending, and afterwards how it ended, the   *)
(*    failure reason it met, the Lambda reply it parsed and the kind of    *)
(*    channel an AgentCore reply carried.                                  *)
(*  - Spec is the component with its backends.  SpecLive adds fairness of  *)
(*    the backends, SpecStorage the changes other scripts make to the      *)
(*    appConfig item, SpecReset the saving of a configuration after the    *)
(*    storage was cleared, and SpecStore is storeMessages on its own.      *)
(***************************************************************************)
EXTENDS Integers, Sequences, FiniteSets, TLC

\* ---------------------------------------------------------------- bounds
MaxTurns == 2
MaxSessions == 2
MaxEvents == 2
MaxLog == 2

\* ---------------------------------------------------------------- texts
Undefined == <<"#undefined">>
EmptyString == << >>

Truthy(s) == s # Undefined /\ s # EmptyString

Whitespace == {" "}

RECURSIVE TrimStart(_)
TrimStart(s) ==
  IF s # << >> /\ Head(s) \in Whitespace THEN TrimStart(Tail(s)) ELSE s

RECURSIVE TrimEnd(_)
TrimEnd(s) ==
  IF s # << >> /\ s[Len(s)] \in Whitespace
    THEN TrimEnd(SubSeq(s, 1, Len(s) - 1))
    ELSE s

Trim(s) == TrimEnd(TrimStart(s))

Contains(s, x) ==
  \E i \in 0..(Len(s) - Len(x)) : SubSeq(s, i + 1, i + Len(x)) = x

\* The texts the user types into the prompt input.
Utterances == {<<" ">>, <<"hi">>}

\* ------------------------------------------------------------ identities
UserName == <<"alice">>
DefaultAgentName == <<"Agent">>
ErrorSender == <<"agent">>

\* ---------------------------------------------------------------- errors
Err(name, message) == [name |-> name, message |-> message]

\* String(err) of an Error object: "name: message", or the name alone.
ErrToString(e) ==
  IF e.message = EmptyString THEN <<e.name>> ELSE <<e.name, ": ">> \o e.message

QuotaExceededError == Err("QuotaExceededError", <<"quota">>)
SyntaxError == Err("SyntaxError", <<"Unexpected token">>)
TypeError == Err("TypeError", <<"Cannot read properties of undefined">>)
Rejected == Err("ThrottlingException", <<"rate exceeded">>)
NoClientError == Err("Error", <<"No agent client available">>)
CompletionUndefinedError == Err("Error", <<"Completion is undefined">>)

\* A variant that leaves the failure description out of the text.
ErrorTextWithoutReason(e) ==
  <<"An error occurred while processing your request:\n">>

ErrorText(e) ==
  <<"An error occurred while processing your request:\n">>
    \o (<<"**">> \o ErrToString(e) \o <<"**">>)

\* --------------------------------------------------------- configuration
\* appConfig as the configuration editor stores it; "missing" is no item.
Config(strands, agentcore, region, name) ==
  [strands |-> strands, agentcore |-> agentcore, region |-> region,
   agentName |-> name]

Configs ==
  { Config(FALSE, FALSE, FALSE, EmptyString),
    Config(TRUE, FALSE, FALSE, EmptyString),
    Config(FALSE, TRUE, TRUE, EmptyString),
    Config(TRUE, TRUE, TRUE, EmptyString),
    Config(FALSE, TRUE, FALSE, EmptyString) }

Missing == [item |-> "null"]

\* An appConfig item whose text is no JSON.
Unreadable == [item |-> "not JSON"]

\* ------------------------------------------------------------- messages
Message(text, sender, turn) == [text |-> text, sender |-> sender, turn |-> turn]

\* JSON.stringify drops a property whose value is undefined.
StringifyMessage(m) ==
  IF m.text = Undefined
    THEN [sender |-> m.sender, turn |-> m.turn]
    ELSE [text |-> m.text, sender |-> m.sender, turn |-> m.turn]

\* Reading a property the parsed object does not have gives undefined.
ParseMessage(j) ==
  [text |-> IF "text" \in DOMAIN j THEN j.text ELSE Undefined,
   sender |-> j.sender, turn |-> j.turn]

\* A variant that leaves out the messages whose text is undefined.
HasText(m) == m.text # Undefined
JSONStringifyDefined(msgs) ==
  [i \in 1..Len(SelectSeq(msgs, HasText)) |->
     StringifyMessage(SelectSeq(msgs, HasText)[i])]

JSONStringify(msgs) == [i \in 1..Len(msgs) |-> StringifyMessage(msgs[i])]

JSONParse(json) == [i \in 1..Len(json) |-> ParseMessage(json[i])]

\* ---------------------------------------------------------- ProgressState
Slots == 1..(MaxTurns + 1)
ZeroTasks == [count |-> 0, latestRationale |-> EmptyString]

VARIABLES
  appConfig,          \* localStorage item appConfig
  lastSessionId,      \* localStorage item lastSessionId (0: no item)
  storedMessages,     \* localStorage items messages_<id>, as JSON texts
  bedrockClient, lambdaClient, agentCoreClient,
  messages, sessionId, isAgentResponding, agentName,
  isStrandsAgent, isAgentCoreAgent,
  tasksCompleted,     \* the state object of tasksCompleted: a slot of tcHeap
  tcHeap,             \* the tasksCompleted objects that are still referenced
  credentials,        \* fetchCredentials: its position and its local appConfig
  procs,              \* the handleSubmit calls so far, by turn
  nextSession         \* the next fresh session id (the clock of Date.now())

vars ==
  <<appConfig, lastSessionId, storedMessages, bedrockClient, lambdaClient,
    agentCoreClient, messages, sessionId, isAgentResponding,
    agentName, isStrandsAgent, isAgentCoreAgent, tasksCompleted, tcHeap,
    credentials, procs, nextSession>>

localStorageVars == <<appConfig, lastSessionId, storedMessages>>
clientVars ==
  <<bedrockClient, lambdaClient, agentCoreClient, agentName, isStrandsAgent,
    isAgentCoreAgent, credentials>>
progressVars == <<tasksCompleted, tcHeap>>

\* The component state of a fresh mount (the useState initial values).
Mounted ==
  /\ bedrockClient = FALSE
  /\ lambdaClient = FALSE
  /\ agentCoreClient = FALSE
  /\ messages = << >>
  /\ sessionId = 0
  /\ isAgentResponding = FALSE
  /\ agentName = DefaultAgentName
  /\ isStrandsAgent = FALSE
  /\ isAgentCoreAgent = FALSE
  /\ tasksCompleted = 1
  /\ tcHeap = [s \in Slots |-> ZeroTasks]
  /\ credentials = [pc |-> "start", appConfig |-> Missing]

Init ==
  /\ appConfig \in Configs
  /\ lastSessionId = 0
  /\ storedMessages = << >>
  /\ nextSession = 1
  /\ procs = << >>
  /\ Mounted

\* ----------------------------------------------------------- localStorage
SetItem(store, id, value) ==
  [k \in DOMAIN store \cup {id} |-> IF k = id THEN value ELSE store[k]]

fetchMessagesForSession(store, id) ==
  IF id \in DOMAIN store THEN JSONParse(store[id]) ELSE << >>

\* A variant that overwrites the log instead of merging with it.
storeMessagesOverwriting(store, id, newMessages) ==
  SetItem(store, id, JSONStringify(newMessages))

\* A variant that puts the new messages before the log.
storeMessagesPrepending(store, id, newMessages) ==
  SetItem(store, id,
          JSONStringify(newMessages \o fetchMessagesForSession(store, id)))

storeMessages(store, id, newMessages) ==
  SetItem(store, id,
          JSONStringify(fetchMessagesForSession(store, id) \o newMessages))

\* ------------------------------------------------------------- startup
\* fetchCredentials up to its await.
FetchCredentials ==
  /\ credentials.pc = "start"
  /\ IF appConfig \notin Configs
       THEN \* JSON.parse throws, or it gives null and null.bedrock throws:
            \* caught at line 227
            /\ credentials' = [pc |-> "failed", appConfig |-> Missing]
            /\ UNCHANGED <<isStrandsAgent, isAgentCoreAgent>>
       ELSE /\ isStrandsAgent' = appConfig.strands
            /\ isAgentCoreAgent' = appConfig.agentcore
            /\ credentials' = [pc |-> "await", appConfig |-> appConfig]
  /\ UNCHANGED <<localStorageVars, bedrockClient, lambdaClient,
                 agentCoreClient, agentName, messages, sessionId,
                 isAgentResponding, progressVars, procs, nextSession>>

\* fetchCredentials after fetchAuthSession() settled.
CredentialsResolved ==
  /\ credentials.pc = "await"
  /\ \E resolved \in BOOLEAN :
       LET config == credentials.appConfig
       IN  IF ~resolved
             THEN /\ credentials' = [credentials EXCEPT !.pc = "failed"]
                  /\ UNCHANGED <<bedrockClient, lambdaClient, agentCoreClient,
                                 agentName>>
             ELSE /\ credentials' = [credentials EXCEPT !.pc = "done"]
                  /\ bedrockClient' = (~config.strands /\ ~config.agentcore)
                  /\ lambdaClient' = (config.strands /\ ~config.agentcore)
                  /\ agentCoreClient' = (config.agentcore /\ config.region)
                  /\ agentName' =
                       IF Truthy(Trim(config.agentName))
                            /\ (~config.agentcore \/ config.region)
                         THEN config.agentName
                         ELSE agentName
  /\ UNCHANGED <<localStorageVars, isStrandsAgent, isAgentCoreAgent, messages,
                 sessionId, isAgentResponding, progressVars,
                 procs, nextSession>>

\* ------------------------------------------------------------- sessions
\* A variant that takes the id of the last session again when there is one.
createNewSessionSameId ==
  LET id == IF lastSessionId # 0 THEN lastSessionId ELSE nextSession
  IN  /\ nextSession <= MaxSessions
      /\ sessionId' = id
      /\ messages' = << >>
      /\ lastSessionId' = id
      /\ storedMessages' = SetItem(storedMessages, id, JSONStringify(<< >>))
      /\ nextSession' = nextSession + 1

createNewSession ==
  /\ nextSession <= MaxSessions
  /\ sessionId' = nextSession
  /\ messages' = << >>
  /\ lastSessionId' = nextSession
  /\ storedMessages' = SetItem(storedMessages, nextSession, JSONStringify(<< >>))
  /\ nextSession' = nextSession + 1

CreateNewSession ==
  /\ createNewSession
  /\ UNCHANGED <<appConfig, clientVars, isAgentResponding,
                 progressVars, procs>>

\* A variant that creates a session whether or not there is a last one.
LoadExistingSessionCreating ==
  /\ (bedrockClient \/ lambdaClient \/ agentCoreClient) /\ sessionId = 0
  /\ createNewSession
  /\ UNCHANGED <<appConfig, clientVars, isAgentResponding,
                 progressVars, procs>>

\* The effect of lines 235-239, which runs loadExistingSession.
LoadExistingSession ==
  /\ (bedrockClient \/ lambdaClient \/ agentCoreClient) /\ sessionId = 0
  /\ IF lastSessionId # 0
       THEN /\ sessionId' = lastSessionId
            /\ messages' = fetchMessagesForSession(storedMessages, lastSessionId)
            /\ UNCHANGED <<lastSessionId, storedMessages, nextSession>>
       ELSE createNewSession
  /\ UNCHANGED <<appConfig, clientVars, isAgentResponding,
                 progressVars, procs>>

\* The page is unloaded: the pending handleSubmit calls never resume.
Unload(ps) ==
  [t \in DOMAIN ps |->
     IF ps[t].pc = "done" THEN ps[t]
     ELSE [ps[t] EXCEPT !.pc = "done", !.outcome = "unloaded", !.tc = 0,
                        !.completion = EmptyString, !.events = << >>,
                        !.published = << >>]]

\* A variant of confirmClearData that leaves the lastSessionId item.
ConfirmClearDataKeepingLastSessionId ==
  /\ appConfig' = Missing
  /\ storedMessages' = << >>
  /\ bedrockClient' = FALSE
  /\ lambdaClient' = FALSE
  /\ agentCoreClient' = FALSE
  /\ messages' = << >>
  /\ sessionId' = 0
  /\ isAgentResponding' = FALSE
  /\ agentName' = DefaultAgentName
  /\ isStrandsAgent' = FALSE
  /\ isAgentCoreAgent' = FALSE
  /\ tasksCompleted' = 1
  /\ tcHeap' = [s \in Slots |-> ZeroTasks]
  /\ credentials' = [pc |-> "start", appConfig |-> Missing]
  /\ procs' = Unload(procs)
  /\ UNCHANGED <<lastSessionId, nextSession>>

\* confirmClearData: localStorage.clear() and a reload of the page, which
\* ends every pending handleSubmit and mounts the component afresh.
ConfirmClearData ==
  /\ appConfig' = Missing
  /\ lastSessionId' = 0
  /\ storedMessages' = << >>
  /\ bedrockClient' = FALSE
  /\ lambdaClient' = FALSE
  /\ agentCoreClient' = FALSE
  /\ messages' = << >>
  /\ sessionId' = 0
  /\ isAgentResponding' = FALSE
  /\ agentName' = DefaultAgentName
  /\ isStrandsAgent' = FALSE
  /\ isAgentCoreAgent' = FALSE
  /\ tasksCompleted' = 1
  /\ tcHeap' = [s \in Slots |-> ZeroTasks]
  /\ credentials' = [pc |-> "start", appConfig |-> Missing]
  /\ procs' = Unload(procs)
  /\ UNCHANGED nextSession

\* The user reloads the page: the component mounts afresh, localStorage stays.
Reload ==
  /\ bedrockClient' = FALSE
  /\ lambdaClient' = FALSE
  /\ agentCoreClient' = FALSE
  /\ messages' = << >>
  /\ sessionId' = 0
  /\ isAgentResponding' = FALSE
  /\ agentName' = DefaultAgentName
  /\ isStrandsAgent' = FALSE
  /\ isAgentCoreAgent' = FALSE
  /\ tasksCompleted' = 1
  /\ tcHeap' = [s \in Slots |-> ZeroTasks]
  /\ credentials' = [pc |-> "start", appConfig |-> Missing]
  /\ procs' = Unload(procs)
  /\ UNCHANGED <<localStorageVars, nextSession>>

\* ------------------------------------------------- tasksCompleted objects
InFlight(ps) == {t \in DOMAIN ps : ps[t].pc # "done"}

\* The tasksCompleted objects the pending handleSubmit closures hold.
ClosureRefs(ps) == {ps[t].tc : t \in InFlight(ps)}

\* A new object: the least slot no pending closure refers to.
NewSlot(ps) ==
  CHOOSE s \in Slots \ ClosureRefs(ps) :
    \A r \in Slots \ ClosureRefs(ps) : s <= r

\* Objects nothing refers to any more are collected.
Collect(heap, ps, state) ==
  [s \in Slots |-> IF s \in ClosureRefs(ps) \cup {state} THEN heap[s]
                   ELSE ZeroTasks]

\* ------------------------------------------------------- backend replies
\* The texts a reply carries: the i-th event of a reply, if it has a
\* rationale or is a chunk, has the i-th text below.
FailureReasons == {<<"x">>}
RationaleTexts == <<"r1", "r2", "r3", "r4">>
ChunkTexts == <<"he", "l", "lo", "!">>

\* The events of response.completion: trace events by the member of
\* trace.trace they carry, and chunk events.
Trace(kind, text) == [type |-> "trace", kind |-> kind, text |-> text]
Chunk(text) == [type |-> "chunk", kind |-> "bytes", text |-> text]

BedrockEvents(i) ==
  {Trace("failureTrace", r) : r \in FailureReasons}
    \cup {Trace("orchestrationTrace", <<RationaleTexts[i]>>),
          Trace("orchestrationTrace", Undefined),
          Trace("preProcessingTrace", Undefined),
          Chunk(<<ChunkTexts[i]>>)}

Fallback == <<"Sorry, I couldn't process your request.">>

\* JSON.parse of the body string of a Lambda reply.
BodyTexts == {<<"{}">>, <<"{\"response\":\"ok\"}">>, <<"oops">>}

ParseBody(body) ==
  CASE body = <<"{}">> -> [ok |-> TRUE, response |-> Undefined]
    [] body = <<"{\"response\":\"ok\"}">> -> [ok |-> TRUE, response |-> <<"ok">>]
    [] OTHER -> [ok |-> FALSE, response |-> Undefined]

\* The parsed Lambda replies: body and response, each absent or a string.
LambdaPayloads ==
  [body : BodyTexts \cup {Undefined}, response : {Undefined, <<"top">>}]

\* Lines 345-353: the text taken from a parsed Lambda reply.
ResponseText(parsedResponse) ==
  IF Truthy(parsedResponse.body)
    THEN [threw |-> ~ParseBody(parsedResponse.body).ok,
          text |-> ParseBody(parsedResponse.body).response]
    ELSE IF Truthy(parsedResponse.response)
      THEN [threw |-> FALSE, text |-> parsedResponse.response]
      ELSE [threw |-> FALSE, text |-> Fallback]

\* JSON.parse of the text assembled from an AgentCore reply.
StreamChunks == {<<"{}">>, <<"{\"result\":">>, <<"\"ok\"}">>}

ParseResult(responseBody) ==
  CASE responseBody = <<"{}">> -> [ok |-> TRUE, result |-> Undefined]
    [] responseBody = <<"{\"result\":", "\"ok\"}">> ->
         [ok |-> TRUE, result |-> <<"ok">>]
    [] OTHER -> [ok |-> FALSE, result |-> Undefined]

\* The AgentCore replies whose response member is no stream: it is absent
\* (responseBody is ''), or it is a string, which has no getReader.
NoStreamResponses ==
  { [channel |-> "absent", body |-> EmptyString],
    [channel |-> "malformed", body |-> <<"{}">>] }

\* Lines 389-390.
ResultText(responseBody) ==
  [threw |-> ~ParseResult(responseBody).ok,
   text |-> IF Truthy(ParseResult(responseBody).result)
              THEN ParseResult(responseBody).result ELSE Fallback]

\* ----------------------------------------------------------- handleSubmit
\* A handleSubmit call: its position, the state its closure captured, its
\* locals, and a record of what it consumed, published and how it ended.
Proc(pc, sid, text, name, tc) ==
  [pc |-> pc, sessionId |-> sid, newMessage |-> text, agentName |-> name,
   tc |-> tc, completion |-> EmptyString, events |-> << >>,
   published |-> << >>, failure |-> Undefined, outcome |-> "pending",
   raised |-> FALSE, channel |-> "none"]

\* Lines 396-411: from the agent message (or a throw inside the try block)
\* to the end of handleSubmit.  raise1 and raise2: whether setItem throws
\* in the storeMessages of line 398 and of line 407.
Settle(ps, t, msgs, heap, threw, agentText, err, raise1, raise2) ==
  LET p == ps[t]
      userMessage == Message(p.newMessage, UserName, t)
      agentMessage == Message(agentText, p.agentName, t)
      tryDone == ~threw /\ ~raise1
      caught == IF threw THEN err ELSE QuotaExceededError
      errorMessage == Message(ErrorText(caught), ErrorSender, t)
      msgs1 == IF threw THEN msgs ELSE Append(msgs, agentMessage)
      msgs2 == IF tryDone THEN msgs1 ELSE Append(msgs1, errorMessage)
      store == IF tryDone
                 THEN storeMessages(storedMessages, p.sessionId,
                                    <<userMessage, agentMessage>>)
                 ELSE IF ~raise2
                   THEN storeMessages(storedMessages, p.sessionId,
                                      <<userMessage, errorMessage>>)
                   ELSE storedMessages
      outcome == IF tryDone THEN "success"
                 ELSE IF raise2 THEN "escaped" ELSE "error"
      ps2 == [ps EXCEPT ![t].pc = "done", ![t].outcome = outcome,
                        ![t].raised = (~threw /\ raise1) \/ (~tryDone /\ raise2),
                        ![t].tc = 0, ![t].completion = EmptyString,
                        ![t].events = IF p.pc = "invoke" THEN @ ELSE << >>,
                        ![t].published = << >>]
      fresh == NewSlot(ps2)
  IN  [messages |-> msgs2, storedMessages |-> store, procs |-> ps2,
       tasksCompleted |-> fresh,
       tcHeap |-> Collect([heap EXCEPT ![fresh] = ZeroTasks], ps2, fresh)]

\* The choices of raise1 and raise2 that Settle reads.
Raises(threw) ==
  IF threw THEN {<<FALSE, FALSE>>, <<FALSE, TRUE>>}
  ELSE {<<FALSE, FALSE>>, <<TRUE, FALSE>>, <<TRUE, TRUE>>}

Finish(ps, t, msgs, heap, threw, agentText, err) ==
  \E r \in Raises(threw) :
    LET s == Settle(ps, t, msgs, heap, threw, agentText, err, r[1], r[2])
    IN  /\ messages' = s.messages
        /\ storedMessages' = s.storedMessages
        /\ procs' = s.procs
        /\ tasksCompleted' = s.tasksCompleted
        /\ tcHeap' = s.tcHeap
        /\ isAgentResponding' = FALSE

\* A variant that reads the Strands flag from the stored configuration.
BranchByStoredConfig ==
  LET strands == appConfig \in Configs /\ appConfig.strands
  IN  IF ~strands /\ bedrockClient THEN "send"
      ELSE IF strands /\ lambdaClient THEN "invoke"
      ELSE IF isAgentCoreAgent /\ agentCoreClient THEN "runtime"
      ELSE "throw"

\* Lines 271, 319, 358, 392: the branch of handleSubmit that is taken.
Branch ==
  IF ~isStrandsAgent /\ bedrockClient THEN "send"
  ELSE IF isStrandsAgent /\ lambdaClient THEN "invoke"
  ELSE IF isAgentCoreAgent /\ agentCoreClient THEN "runtime"
  ELSE "throw"

\* A variant of the guard that does not ask for a session.
AcceptsWithoutSession(newMessage, sid) == Truthy(Trim(newMessage))

\* Line 257: the guard of handleSubmit.
Accepts(newMessage, sid) == Truthy(Trim(newMessage)) /\ sid # 0

\* Lines 254-288, 319-336, 358-367, 392-394: handleSubmit up to its first
\* await, with newMessage the text of the prompt input when the form is
\* submitted.  fetchAuthSession() and send() are awaited one after the other
\* with no state read or written in between: one suspension.
HandleSubmit(newMessage) ==
  /\ Len(procs) < MaxTurns
  /\ IF ~Accepts(newMessage, sessionId)
       THEN \* line 257: nothing is done
            /\ procs' = Append(procs,
                 [Proc("done", sessionId, newMessage, agentName, 0)
                    EXCEPT !.outcome = "ignored"])
            /\ UNCHANGED <<messages, storedMessages, isAgentResponding,
                           progressVars>>
     ELSE IF appConfig = Unreadable
       THEN \* line 258: JSON.parse throws before the try block is entered
            /\ procs' = Append(procs,
                 [Proc("done", sessionId, newMessage, agentName, 0)
                    EXCEPT !.outcome = "crashed"])
            /\ UNCHANGED <<messages, storedMessages, isAgentResponding,
                           progressVars>>
       ELSE
     LET t == Len(procs) + 1
         userMessage == Message(newMessage, UserName, t)
         msgs == Append(messages, userMessage)
         pc == Branch
         ps == Append(procs, Proc(pc, sessionId, newMessage, agentName,
                                  tasksCompleted))
     IN  IF pc = "throw"
           THEN Finish(ps, t, msgs, tcHeap, TRUE, Undefined, NoClientError)
           ELSE IF appConfig = Missing
             THEN \* appConfig is null: reading appConfig.bedrock throws
                  Finish(ps, t, msgs, tcHeap, TRUE, Undefined, TypeError)
             ELSE /\ messages' = msgs
                  /\ procs' = ps
                  /\ isAgentResponding' = TRUE
                  /\ UNCHANGED <<storedMessages, progressVars>>
  /\ UNCHANGED <<appConfig, lastSessionId, clientVars, sessionId, nextSession>>

Frame == <<appConfig, lastSessionId, clientVars, sessionId, nextSession>>

\* Lines 288-292: bedrockClient.send settled.
SendSettled(t) ==
  /\ procs[t].pc = "send"
  /\ \/ Finish(procs, t, messages, tcHeap, TRUE, Undefined, Rejected)
     \/ Finish(procs, t, messages, tcHeap, TRUE, Undefined,
               CompletionUndefinedError)
     \/ /\ procs' = [procs EXCEPT ![t].pc = "stream"]
        /\ UNCHANGED <<messages, storedMessages, isAgentResponding,
                       progressVars>>
  /\ UNCHANGED Frame

\* Lines 294-313: one event of response.completion.
ChunkEvent(t, chunkEvent) ==
  LET p == procs[t]
      seen == [procs EXCEPT ![t].events = Append(@, chunkEvent),
                            ![t].failure = IF chunkEvent.kind = "failureTrace"
                                             THEN chunkEvent.text ELSE @]
      counted == [tcHeap EXCEPT ![p.tc].count = @ + 1]
  IN  IF chunkEvent.type = "trace"
        THEN IF chunkEvent.kind = "failureTrace"
               THEN Finish(seen, t, messages, counted, TRUE, Undefined,
                           Err("Error", chunkEvent.text))
             ELSE IF chunkEvent.kind # "orchestrationTrace"
               THEN \* trace.trace.orchestrationTrace is undefined
                    Finish(seen, t, messages, counted, TRUE, Undefined, TypeError)
             ELSE LET heap == IF chunkEvent.text # Undefined
                                THEN [counted EXCEPT ![p.tc].latestRationale =
                                                       chunkEvent.text]
                                ELSE counted
                      copy == NewSlot(seen)
                  IN  /\ tasksCompleted' = copy
                      /\ tcHeap' = Collect([heap EXCEPT ![copy] = heap[p.tc]],
                                           seen, copy)
                      /\ procs' = [seen EXCEPT ![t].published =
                                                 Append(@, heap[p.tc])]
                      /\ UNCHANGED <<messages, storedMessages, isAgentResponding>>
        ELSE /\ procs' = [seen EXCEPT ![t].completion = @ \o chunkEvent.text]
             /\ UNCHANGED <<messages, storedMessages, isAgentResponding,
                            progressVars>>

StreamNext(t) ==
  /\ procs[t].pc = "stream"
  /\ \/ /\ Len(procs[t].events) < MaxEvents
        /\ \E chunkEvent \in BedrockEvents(Len(procs[t].events) + 1) :
             ChunkEvent(t, chunkEvent)
     \/ \* the sequence is exhausted: lines 315-316, 396-411
        Finish(procs, t, messages, tcHeap, FALSE, procs[t].completion, Rejected)
     \/ \* the iterator rejects
        Finish(procs, t, messages, tcHeap, TRUE, Undefined, Rejected)
  /\ UNCHANGED Frame

\* Lines 336-355: lambdaClient.send settled.
InvokeSettled(t) ==
  /\ procs[t].pc = "invoke"
  /\ \/ Finish(procs, t, messages, tcHeap, TRUE, Undefined, Rejected)
     \/ \* the payload is no JSON text
        Finish(procs, t, messages, tcHeap, TRUE, Undefined, SyntaxError)
     \/ \E parsedResponse \in LambdaPayloads :
          LET r == ResponseText(parsedResponse)
              seen == [procs EXCEPT ![t].events = <<parsedResponse>>]
          IN  Finish(seen, t, messages, tcHeap, r.threw, r.text, SyntaxError)
  /\ UNCHANGED Frame

\* Lines 367-385: agentCoreClient.send settled.
RuntimeSettled(t) ==
  /\ procs[t].pc = "runtime"
  /\ \/ Finish(procs, t, messages, tcHeap, TRUE, Undefined, Rejected)
     \/ \E response \in NoStreamResponses :
          \* response.response has no getReader: lines 383-385
          LET r == ResultText(response.body)
              seen == [procs EXCEPT ![t].channel = response.channel]
          IN  Finish(seen, t, messages, tcHeap, r.threw, r.text, SyntaxError)
     \/ /\ procs' = [procs EXCEPT ![t].pc = "read", ![t].channel = "readable"]
        /\ UNCHANGED <<messages, storedMessages, isAgentResponding,
                       progressVars>>
  /\ UNCHANGED Frame

\* Lines 376-391: reader.read() settled.
ReadSettled(t) ==
  /\ procs[t].pc = "read"
  /\ \/ /\ Len(procs[t].events) < MaxEvents
        /\ \E value \in StreamChunks :
             /\ procs' = [procs EXCEPT ![t].events = Append(@, value),
                                       ![t].completion = @ \o value]
             /\ UNCHANGED <<messages, storedMessages, isAgentResponding,
                            progressVars>>
     \/ LET r == ResultText(procs[t].completion)
        IN  Finish(procs, t, messages, tcHeap, r.threw, r.text, SyntaxError)
     \/ Finish(procs, t, messages, tcHeap, TRUE, Undefined, Rejected)
  /\ UNCHANGED Frame

Next ==
  \/ FetchCredentials
  \/ CredentialsResolved
  \/ CreateNewSession
  \/ LoadExistingSession
  \/ ConfirmClearData
  \/ Reload
  \/ \E newMessage \in Utterances : HandleSubmit(newMessage)
  \/ \E t \in DOMAIN procs : SendSettled(t)
  \/ \E t \in DOMAIN procs : StreamNext(t)
  \/ \E t \in DOMAIN procs : InvokeSettled(t)
  \/ \E t \in DOMAIN procs : RuntimeSettled(t)
  \/ \E t \in DOMAIN procs : ReadSettled(t)

Spec == Init /\ [][Next]_vars

\* The awaited promise of call t settles: the backend answers every request
\* and its event sequences end.
Settles(t) ==
  /\ t \in DOMAIN procs
  /\ \/ SendSettled(t)
     \/ StreamNext(t)
     \/ InvokeSettled(t)
     \/ RuntimeSettled(t)
     \/ ReadSettled(t)

SpecLive == Spec /\ \A t \in 1..MaxTurns : WF_vars(Settles(t))

\* The configurations an edit of config turns it into: the Strands agent is
\* switched on or off.
Edited(config) ==
  {c \in Configs : /\ ~config.agentcore /\ ~c.agentcore
                   /\ c.strands = ~config.strands}

\* The appConfig item is changed while the component is mounted, by another
\* script of the origin (another tab, the configuration editor): the item is
\* removed, it is given a text that is no JSON, or it is edited.
AppConfigItemChanged ==
  /\ appConfig \in Configs
  /\ appConfig' \in {Missing, Unreadable} \cup Edited(appConfig)
  /\ UNCHANGED <<lastSessionId, storedMessages, clientVars, messages,
                 sessionId, isAgentResponding, progressVars, procs,
                 nextSession>>

\* storeMessages on its own: any session id, any list of messages, applied
\* to the logs that storeMessages has built so far.
StoreInputs ==
  { Message(<<"hi">>, UserName, 1),
    Message(Undefined, DefaultAgentName, 1) }

MessageSeqs == UNION {[1..n -> StoreInputs] : n \in 0..MaxLog}

StoreMessages(id, newMessages) ==
  /\ Len(fetchMessagesForSession(storedMessages, id)) + Len(newMessages)
       <= MaxLog
  /\ storedMessages' = storeMessages(storedMessages, id, newMessages)
  /\ UNCHANGED <<appConfig, lastSessionId, clientVars, messages, sessionId,
                 isAgentResponding, progressVars, procs, nextSession>>

NextStore ==
  \E id \in 1..MaxSessions, newMessages \in MessageSeqs :
    StoreMessages(id, newMessages)

SpecStore == Init /\ [][NextStore]_vars

\* The configuration editor saves a configuration where there is none, and
\* the component is mounted again when the editor closes.
AppConfigSaved ==
  /\ appConfig \notin Configs
  /\ appConfig' \in Configs
  /\ bedrockClient' = FALSE
  /\ lambdaClient' = FALSE
  /\ agentCoreClient' = FALSE
  /\ messages' = << >>
  /\ sessionId' = 0
  /\ isAgentResponding' = FALSE
  /\ agentName' = DefaultAgentName
  /\ isStrandsAgent' = FALSE
  /\ isAgentCoreAgent' = FALSE
  /\ tasksCompleted' = 1
  /\ tcHeap' = [s \in Slots |-> ZeroTasks]
  /\ credentials' = [pc |-> "start", appConfig |-> Missing]
  /\ procs' = Unload(procs)
  /\ UNCHANGED <<lastSessionId, storedMessages, nextSession>>

NextReset == Next \/ AppConfigSaved

SpecReset == Init /\ [][NextReset]_vars

NextStorage == Next \/ AppConfigItemChanged

SpecStorage == Init /\ [][NextStorage]_vars

\* ------------------------------------------------------------ properties
Turns == DOMAIN procs
Pending == InFlight(procs)
Log(id) == fetchMessagesForSession(storedMessages, id)
LogAfter(id) == fetchMessagesForSession(storedMessages', id)
UserMessageOf(t) == Message(procs[t].newMessage, UserName, t)

\* Turn t reaches its terminal outcome in this step.
Completes(t) ==
  /\ t \in DOMAIN procs' /\ procs'[t].pc = "done"
  /\ procs'[t].outcome \notin {"unloaded", "ignored"}
  /\ t \in DOMAIN procs => procs[t].pc # "done"

\* C1: for each session id at most one handleSubmit call is between its
\* start and its terminal outcome.
C1_OneInFlightPerSession ==
  \A t1, t2 \in Pending :
    procs[t1].sessionId = procs[t2].sessionId => t1 = t2

\* C2: whenever no submit is in flight (and no store write has failed), the
\* in-memory message list equals the stored log of the active session.
C2_MemoryEqualsStoredLog ==
  (/\ Pending = {}
   /\ sessionId # 0
   /\ \A t \in Turns : ~procs[t].raised)
    => messages = Log(sessionId)

\* C3: once a session has been superseded by createSession, no later step
\* changes its stored log (short of the purge of all storage).
C3_SupersededLogFrozen ==
  [][\A id \in DOMAIN storedMessages :
       (id # lastSessionId /\ id \in DOMAIN storedMessages')
         => storedMessages'[id] = storedMessages[id]]_vars

\* C4: no exception escapes handleSubmit: every accepted submit ends
\* normally, whatever fails during it.
C4_NoExceptionEscapes ==
  \A t \in Turns : procs[t].outcome # "escaped"

\* The agent-side messages of turn t in a list.
AgentMessagesOf(t, msgs) ==
  {msgs[i] : i \in {j \in DOMAIN msgs :
                      msgs[j].turn = t /\ msgs[j].sender # UserName}}

\* C5: a submit whose backend call succeeds (and whose store write does not
\* fail) appends exactly the user message and then the agent message to the
\* stored log of the session it was submitted in, after the log's prior
\* content, leaves every other log alone, and ends with ProgressState
\* {0, ""}.
C5_SuccessAppendsUserThenAgent ==
  [][\A t \in DOMAIN procs :
       (Completes(t) /\ procs'[t].outcome = "success") =>
         LET id == procs[t].sessionId
             n == Len(Log(id))
         IN  /\ Len(LogAfter(id)) = n + 2
             /\ SubSeq(LogAfter(id), 1, n) = Log(id)
             /\ LogAfter(id)[n + 1] = UserMessageOf(t)
             /\ LogAfter(id)[n + 2].turn = t
             /\ LogAfter(id)[n + 2].sender = procs[t].agentName
             /\ procs[t].pc = "stream"
                  => LogAfter(id)[n + 2].text = procs[t].completion
             /\ DOMAIN storedMessages' = DOMAIN storedMessages
             /\ \A other \in DOMAIN storedMessages \ {id} :
                  storedMessages'[other] = storedMessages[other]
             /\ tcHeap'[tasksCompleted'] = ZeroTasks]_vars

\* Two backend successes were stored one after the other in one session.
C5_Witness ==
  \E t1, t2 \in Turns :
    /\ t1 # t2
    /\ procs[t1].outcome = "success" /\ procs[t2].outcome = "success"
    /\ procs[t1].sessionId = procs[t2].sessionId
    /\ Len(Log(procs[t1].sessionId)) = 4

\* The places of the stored logs that hold a message of turn t.
StoredPlaces(t) ==
  UNION {{<<id, i>> : i \in {j \in DOMAIN Log(id) : Log(id)[j].turn = t}} :
           id \in DOMAIN storedMessages}

\* C6: the stored logs hold no interleaved and no duplicated entries, also
\* when submits overlap: every log is a sequence of pairs, a call's user
\* message immediately followed by the same call's agent message, and no
\* call has more than one pair stored.
C6_NoInterleavedOrDuplicatedEntries ==
  /\ \A id \in DOMAIN storedMessages :
       /\ Len(Log(id)) % 2 = 0
       /\ \A k \in 1..(Len(Log(id)) \div 2) :
            /\ Log(id)[2 * k - 1].sender = UserName
            /\ Log(id)[2 * k].sender # UserName
            /\ Log(id)[2 * k - 1].turn = Log(id)[2 * k].turn
  /\ \A t \in Turns : Cardinality(StoredPlaces(t)) <= 2

\* Two overlapping submits of one session are both stored: the one that
\* started second was stored first.
C6_Witness ==
  \E id \in DOMAIN storedMessages :
    /\ Len(Log(id)) = 4
    /\ Log(id)[1].turn = 2 /\ Log(id)[3].turn = 1

IsTrace(e) == e.type = "trace"
IsChunk(e) == e.type = "chunk"

RECURSIVE Concat(_)
Concat(events) ==
  IF events = << >> THEN EmptyString
  ELSE Head(events).text \o Concat(Tail(events))

\* The rationale text of the latest of the first i trace events that
\* carried one, "" if none did.
LatestRationale(traces, i) ==
  LET with == {j \in 1..i : traces[j].text # Undefined}
  IN  IF with = {} THEN EmptyString
      ELSE traces[CHOOSE j \in with : \A k \in with : k <= j].text

\* C7: while a TracedStreaming turn consumes its events, the ProgressStates
\* it has published are one per trace event, the i-th being
\* {i, latest rationale of the first i trace events}, and the text it
\* accumulates is the concatenation of the chunk texts in arrival order.
C7_PublishedIsFoldOfEvents ==
  \A t \in Pending :
    procs[t].pc = "stream" =>
      LET traces == SelectSeq(procs[t].events, IsTrace)
      IN  /\ Len(procs[t].published) = Len(traces)
          /\ \A i \in 1..Len(traces) :
               procs[t].published[i] =
                 [count |-> i, latestRationale |-> LatestRationale(traces, i)]
          /\ procs[t].completion = Concat(SelectSeq(procs[t].events, IsChunk))

\* C8: a TracedStreaming turn that meets a failure trace with reason x ends
\* at that event: its only agent message, in memory and in the store, is the
\* synthesized error message, whose text contains x and none of the chunk
\* texts accumulated so far; it is appended in memory and (unless the store
\* write fails) stored after the user message.
C8_FailureTraceEndsTurnWithError ==
  [][\A t \in DOMAIN procs :
       (Completes(t) /\ procs'[t].failure # Undefined) =>
         LET id == procs[t].sessionId
             m == messages'[Len(messages')]
         IN  /\ procs[t].pc = "stream"
             /\ messages' = Append(messages, m)
             /\ m.turn = t /\ m.sender # UserName
             /\ Head(m.text) = "An error occurred while processing your request:\n"
             /\ Contains(m.text, procs'[t].failure)
             /\ \A i \in DOMAIN procs[t].completion :
                  ~Contains(m.text, <<procs[t].completion[i]>>)
             /\ AgentMessagesOf(t, messages') = {m}
             /\ \A other \in DOMAIN storedMessages' :
                  AgentMessagesOf(t, LogAfter(other)) \subseteq {m}
             /\ IF procs'[t].raised
                  THEN storedMessages' = storedMessages
                  ELSE LogAfter(id) = Log(id) \o <<UserMessageOf(t), m>>]_vars

\* A turn met a failure trace and its error message is stored.
C8_Witness ==
  \E t \in Turns :
    /\ procs[t].failure # Undefined
    /\ procs[t].outcome = "error"
    /\ AgentMessagesOf(t, Log(procs[t].sessionId)) # {}
    /\ AgentMessagesOf(t, messages) # {}

\* Turn t starts in this step.
Starts(t) == t \in DOMAIN procs' /\ t \notin DOMAIN procs

\* C9: ProgressState is {0, ""} at the start of every request (the object
\* whose count the request increments holds {0, ""}) and is {0, ""} again when
\* the request has ended.
C9_ProgressZeroAtStartAndEnd ==
  [][\A t \in DOMAIN procs' :
       /\ (Starts(t) /\ procs'[t].pc # "done")
            => tcHeap'[procs'[t].tc] = ZeroTasks
       /\ Completes(t) => tcHeap'[tasksCompleted'] = ZeroTasks]_vars

\* The text the fallback order gives for a parsed Lambda reply: the nested
\* body.response if present, else the top-level response if present, else
\* the fixed fallback string.
FallbackOrderText(parsedResponse) ==
  IF /\ parsedResponse.body # Undefined
     /\ ParseBody(parsedResponse.body).ok
     /\ ParseBody(parsedResponse.body).response # Undefined
    THEN ParseBody(parsedResponse.body).response
    ELSE IF parsedResponse.response # Undefined
      THEN parsedResponse.response
      ELSE Fallback

\* C10: the agent message of a Synchronous turn has the text the fallback
\* order gives for the parsed reply.
C10_TextFollowsFallbackOrder ==
  \A t \in Turns :
    (procs[t].outcome = "success" /\ procs[t].events # << >>) =>
      \A m \in AgentMessagesOf(t, messages)
              \cup UNION {AgentMessagesOf(t, Log(id)) :
                            id \in DOMAIN storedMessages} :
        m.text = FallbackOrderText(procs[t].events[1])

\* C11: an AgentCore turn whose reply carries no readable channel (absent,
\* or not a stream) ends normally with the empty string as its result: the
\* step that ends it appends one agent message with text "" and no
\* synthesized error message (store write failures aside).
C11_NoChannelEndsWithEmptyResult ==
  [][\A t \in DOMAIN procs :
       (/\ Completes(t)
        /\ procs'[t].channel \in {"absent", "malformed"}
        /\ ~procs'[t].raised) =>
         /\ procs'[t].outcome = "success"
         /\ messages' =
              Append(messages, Message(EmptyString, procs[t].agentName, t))]_vars

\* C12: when the store write of a turn fails, the step that ends the turn
\* adds to the in-memory list exactly the turn's agent message (the user
\* message went in at the start) and no further message reporting the store
\* failure, clears isAgentResponding and leaves the session active.
C12_StoreFailureKeepsConversation ==
  [][\A t \in DOMAIN procs :
       (Completes(t) /\ procs'[t].raised) =>
         /\ Len(messages') = Len(messages) + 1
         /\ messages'[Len(messages')].turn = t
         /\ messages'[Len(messages')].sender # UserName
         /\ isAgentResponding' = FALSE
         /\ sessionId' = sessionId]_vars

\* A backend branch of handleSubmit can be taken in the current state.
AdapterResolvable ==
  \/ ~isStrandsAgent /\ bedrockClient
  \/ isStrandsAgent /\ lambdaClient
  \/ isAgentCoreAgent /\ agentCoreClient

\* C13: an accepted submit that finds no backend client, or finds the
\* appConfig item absent or unreadable, does not crash: in that step the user
\* message and then a synthesized error message of the turn are appended to
\* the in-memory list, and (unless the store write fails) the same two
\* messages are appended to the stored log of the session.
C13_NoAdapterOrConfigGivesErrorMessage ==
  [][\A t \in DOMAIN procs' :
       (/\ Starts(t)
        /\ Accepts(procs'[t].newMessage, sessionId)
        /\ ~AdapterResolvable \/ appConfig \notin Configs) =>
         LET n == Len(messages)
             u == Message(procs'[t].newMessage, UserName, t)
         IN  /\ procs'[t].outcome \in {"error", "escaped"}
             /\ Len(messages') = n + 2
             /\ SubSeq(messages', 1, n) = messages
             /\ messages'[n + 1] = u
             /\ messages'[n + 2].turn = t
             /\ messages'[n + 2].sender # UserName
             /\ Head(messages'[n + 2].text)
                  = "An error occurred while processing your request:\n"
             /\ ~procs'[t].raised
                  => LogAfter(sessionId) = Log(sessionId) \o <<u, messages'[n + 2]>>]_vars

\* C14: for every session id and every list of messages, storeMessages
\* followed by fetchMessagesForSession of that id gives the log the id had
\* before followed by the new messages in their order (an id with no item
\* has the empty log), and the item of every other id is unchanged.
C14_StoreThenFetchAppends ==
  \A id \in 1..MaxSessions, newMessages \in MessageSeqs :
    LET after == storeMessages(storedMessages, id, newMessages)
    IN  /\ fetchMessagesForSession(after, id) = Log(id) \o newMessages
        /\ DOMAIN after = DOMAIN storedMessages \cup {id}
        /\ \A other \in DOMAIN storedMessages \ {id} :
             after[other] = storedMessages[other]

\* Two sessions have logs built by storeMessages, one of them holding a
\* message whose text is undefined after a message with a text.
C14_Witness ==
  /\ DOMAIN storedMessages = {1, 2}
  /\ Log(1) = <<Message(<<"hi">>, UserName, 1),
                Message(Undefined, DefaultAgentName, 1)>>
  /\ Len(Log(2)) = MaxLog

\* C15: after confirmClearData, loadExistingSession (which runs once a
\* configuration is saved again and a client exists) yields a freshly
\* created session: from the emptied storage, the step that makes a session
\* active gives an id never issued before, no in-memory messages, an empty
\* stored log for that id, and lastSessionId equal to it.
C15_ResetThenResumeGivesFreshSession ==
  [][(storedMessages = << >> /\ sessionId = 0 /\ sessionId' # 0) =>
       /\ sessionId' >= nextSession
       /\ \A t \in DOMAIN procs : procs[t].sessionId # sessionId'
       /\ messages' = << >>
       /\ DOMAIN storedMessages' = {sessionId'}
       /\ LogAfter(sessionId') = << >>
       /\ lastSessionId' = sessionId']_vars

\* Session 1 held a stored turn, storage was cleared, and the component, with
\* a client again, has session 2 active with nothing in memory or stored.
C15_Witness ==
  /\ bedrockClient \/ lambdaClient \/ agentCoreClient
  /\ \E t \in Turns : procs[t].sessionId = 1 /\ procs[t].outcome = "success"
  /\ sessionId = 2 /\ lastSessionId = 2
  /\ DOMAIN storedMessages = {2}
  /\ Log(2) = << >> /\ messages = << >>

\* C16: a handleSubmit call whose utterance is empty after trimming, or
\* that is made while no session is active, does nothing: the in-memory
\* list, every stored log, isAgentResponding and the ProgressState are
\* unchanged, no backend is called and no error is raised.
C16_BlankOrSessionlessSubmitIsNoOp ==
  [][\A t \in DOMAIN procs' :
       (/\ Starts(t)
        /\ ~Truthy(Trim(procs'[t].newMessage)) \/ sessionId = 0) =>
         /\ procs'[t].outcome = "ignored"
         /\ procs'[t].pc = "done"
         /\ messages' = messages
         /\ storedMessages' = storedMessages
         /\ lastSessionId' = lastSessionId
         /\ isAgentResponding' = isAgentResponding
         /\ tasksCompleted' = tasksCompleted
         /\ tcHeap' = tcHeap]_vars

\* A non-blank utterance was submitted while no session was active, and a
\* blank one in an active session.
C16_Witness ==
  \E t1, t2 \in Turns :
    /\ procs[t1].outcome = "ignored" /\ procs[t2].outcome = "ignored"
    /\ procs[t1].sessionId = 0 /\ Truthy(Trim(procs[t1].newMessage))
    /\ procs[t2].sessionId # 0 /\ ~Truthy(Trim(procs[t2].newMessage))

\* The places of the agent-side messages of turn t that this step appends to
\* the in-memory list.
AgentMessagesAppended(t) ==
  {i \in (Len(messages) + 1)..Len(messages') :
     messages'[i].turn = t /\ messages'[i].sender # UserName}

\* Every pending call eventually ends (or is ended by the page's unload).
EveryPendingCallEnds ==
  \A t \in 1..MaxTurns : (t \in Pending) ~> (t \notin Pending)

\* C17: every accepted submit reaches exactly one terminal outcome when the
\* backend's event sequence is finite: a pending call eventually ends (or
\* the page is unloaded), and the step that ends a call appends exactly one
\* agent-side message of the turn to the in-memory list, the answer or the
\* synthesized error message and never both, and clears isAgentResponding.
C17_ExactlyOneTerminalOutcome ==
  /\ EveryPendingCallEnds
  /\ [][\A t \in DOMAIN procs' :
          Completes(t) =>
            /\ Cardinality(AgentMessagesAppended(t)) = 1
            /\ isAgentResponding' = FALSE]_vars

\* The backend clients that exist, named by the branch that uses them.
ActiveClients ==
  {b \in {"send", "invoke", "runtime"} :
     \/ b = "send" /\ bedrockClient
     \/ b = "invoke" /\ lambdaClient
     \/ b = "runtime" /\ agentCoreClient}

\* The backend the enabled flags of a configuration select: Bedrock unless
\* a flag selects AgentCore or Strands.
Selected(config) ==
  IF config.agentcore THEN "runtime"
  ELSE IF config.strands THEN "invoke" ELSE "send"

\* C18: one backend per page load.  There is never more than one client;
\* once fetchCredentials has ended with credentials, for every combination
\* of the enabled flags (the AgentCore region being configured) there is
\* exactly one client, the one the flags select; and every submit that
\* reaches a backend goes to that one, also after the stored configuration
\* was edited.
C18_OneBackendPerPageLoad ==
  /\ [](Cardinality(ActiveClients) <= 1)
  /\ []((/\ credentials.pc = "done"
         /\ credentials.appConfig.agentcore => credentials.appConfig.region)
          => ActiveClients = {Selected(credentials.appConfig)})
  /\ [][\A t \in DOMAIN procs' :
          (/\ Starts(t)
           /\ Accepts(procs'[t].newMessage, sessionId)
           /\ ActiveClients # {}
           /\ appConfig \in Configs) =>
            procs'[t].pc = Selected(credentials.appConfig)]_vars

\* The stored configuration was edited to enable Strands after startup built
\* the Bedrock client, and two submits are waiting for Bedrock.
C18_Witness ==
  /\ credentials.pc = "done"
  /\ credentials.appConfig = Config(FALSE, FALSE, FALSE, EmptyString)
  /\ appConfig = Config(TRUE, FALSE, FALSE, EmptyString)
  /\ \E t1, t2 \in Pending :
       t1 # t2 /\ procs[t1].pc = "send" /\ procs[t2].pc = "stream"

\* C19: a step of createNewSession (the only step that takes a new id from
\* the clock) makes active an id that no stored log and no earlier call has,
\* empties the in-memory list, creates the empty stored log of the new id,
\* sets lastSessionId to it, leaves the ProgressState at {0, ""} and leaves
\* the stored logs of all other sessions as they were.
C19_CreateSessionPostcondition ==
  [][nextSession' # nextSession =>
       /\ sessionId' \notin DOMAIN storedMessages
       /\ \A t \in DOMAIN procs : procs[t].sessionId # sessionId'
       /\ sessionId' # sessionId /\ sessionId' # 0
       /\ messages' = << >>
       /\ DOMAIN storedMessages' = DOMAIN storedMessages \cup {sessionId'}
       /\ LogAfter(sessionId') = << >>
       /\ lastSessionId' = sessionId'
       /\ tcHeap'[tasksCompleted'] = ZeroTasks
       /\ \A id \in DOMAIN storedMessages :
            storedMessages'[id] = storedMessages[id]]_vars

\* C20: a step of loadExistingSession, when the lastSessionId item is
\* present, makes that id the active session and the in-memory list the
\* stored log of that id, in stored order, and writes nothing to
\* localStorage; when the item is absent it is a step of createNewSession.
C20_ResumeLoadsLastSessionOrCreates ==
  [][LoadExistingSession =>
       IF lastSessionId # 0
         THEN /\ sessionId' = lastSessionId
              /\ messages' = Log(lastSessionId)
              /\ \A i \in DOMAIN messages' :
                   messages'[i] = ParseMessage(storedMessages[lastSessionId][i])
              /\ UNCHANGED <<appConfig, lastSessionId, storedMessages>>
         ELSE createNewSession]_vars

\* The page was reloaded while the second turn of session 1 was pending, and
\* the component has resumed session 1 with the stored first turn in memory.
C20_Witness ==
  /\ bedrockClient \/ lambdaClient \/ agentCoreClient
  /\ \E t \in Turns : procs[t].outcome = "unloaded"
  /\ sessionId # 0 /\ sessionId = lastSessionId
  /\ Len(messages) = 2 /\ messages = Log(sessionId)

\* Every message of the in-memory list and of the stored logs.
AllMessages ==
  {messages[i] : i \in DOMAIN messages}
    \cup UNION {{Log(id)[i] : i \in DOMAIN Log(id)} :
                 id \in DOMAIN storedMessages}

\* C21: every message in memory and in every stored log has one of two
\* senders, the user's name or the agent's display name (agentName, as the
\* call that built the message read it); the synthesized error message of a
\* failed turn has the agent sender like a normal agent message.
C21_TwoSenders ==
  \A m \in AllMessages :
    m.sender = UserName \/ m.sender = procs[m.turn].agentName

\* C22: isAgentResponding is true exactly when some handleSubmit call has
\* started and has not reached its terminal outcome.
C22_FlagIffSomeCallPending ==
  isAgentResponding <=> (Pending # {})

\* C23: every stored log is a sequence of complete turns: its length is
\* even, and each pair is the user message of a call made in that session
\* followed by the agent or error message of the same call, so that no user
\* message is stored without its agent message; and a log only grows by
\* appending, all logs being removed together by confirmClearData: no step
\* changes or removes an earlier entry.
C23_LogsAreCompleteTurnsAppendOnly ==
  /\ [](\A id \in DOMAIN storedMessages :
          /\ Len(Log(id)) % 2 = 0
          /\ \A k \in 1..(Len(Log(id)) \div 2) :
               LET u == Log(id)[2 * k - 1]
                   a == Log(id)[2 * k]
               IN  /\ u.turn \in Turns
                   /\ u = UserMessageOf(u.turn)
                   /\ procs[u.turn].sessionId = id
                   /\ a.turn = u.turn
                   /\ a.sender # UserName)
  /\ [][\A id \in DOMAIN storedMessages :
          \/ storedMessages' = << >>
          \/ /\ id \in DOMAIN storedMessages'
             /\ Len(LogAfter(id)) >= Len(Log(id))
             /\ SubSeq(LogAfter(id), 1, Len(Log(id))) = Log(id)]_vars

\* A log holds the turn of a failed call followed by the turn of a call that
\* succeeded, and a second session has a log as well.
C23_Witness ==
  /\ Cardinality(DOMAIN storedMessages) = 2
  /\ \E id \in DOMAIN storedMessages :
       /\ Len(Log(id)) = 4
       /\ Log(id)[2].sender = ErrorSender
       /\ Log(id)[4].sender = DefaultAgentName
====
